---- MODULE Spec2Model ----
(***************************************************************************)
(* Model of lib/worker.py: the Worker supervisor thread, its WorkerThread  *)
(* execution units, the capacity-1 task_queue and the complete_queue.      *)
(*                                                                         *)
(* Program counters are named after the source line a thread is about to   *)
(* execute.  A WorkerThread is at                                          *)
(*   L107  the outer loop test (after start, and after the sleep of 129)   *)
(*   L109  the inner loop test                                             *)
(*   L112  idle = False; task_queue.get_nowait()                           *)
(*   L117  inside process_item (the conversion is running)                 *)
(*   L121  complete_queue.put; current_task = {}                           *)
(* and the Worker supervisor is at                                         *)
(*   L190  the monitor loop test, followed by initWorkerThreads (194)      *)
(*   L197  checkForIdleWorkers                                             *)
(*   L202  the completion drain loop                                       *)
(*   L213  the dispatch loop test, followed by initWorkerThreads (216)     *)
(*   L218  task_queue.full()                                              *)
(*   L220  get_next_incoming_item, add_to_task_queue                       *)
(* Statements form one step only where the Worker and the other units can *)
(* neither observe nor change what lies between them: the put of 121 and   *)
(* the reset of 124, a loop test and the call that follows it.             *)
(* time.sleep only delays a thread and is no step.                         *)
(***************************************************************************)
EXTENDS Integers, Sequences, FiniteSets, TLC

\* ---------------------------------------------------------------- bounds

\* Largest value settings.NUMBER_OF_WORKERS takes; unit ids are 0..MaxWorkers-1.
MaxWorkers == 3

\* Number of items the job queue holds as incoming.
NumTasks == 2

\* Number of times settings.NUMBER_OF_WORKERS is changed at run time.
MaxChanges == 1

\* Entries of remove_list that are tracked (the list is write-only in the code).
MaxRemoveList == 2

\* Number of incoming items while a thread reads the units' status.
StatusTasks == 1

\* ------------------------------------------------------ program constants

\* a Handoff Queue with one slot more
TaskQueueMaxSize_2 == 1 + 1

\* 140: queue.Queue(maxsize=1)
TaskQueueMaxSize == 1

\* current_task holding no task: None (49) before the first claim and {} (124)
\* after a push; the code only tests its truthiness (66, 72)
NoTask == 0

Units == 0 .. (MaxWorkers - 1)

Tasks == 1 .. NumTasks

VARIABLES
    target,          \* settings.NUMBER_OF_WORKERS as last read by the Worker
    changes,         \* how many times the setting was changed
    abort_flag,      \* Worker.abort_flag
    worker_threads,  \* keys of Worker.worker_threads
    remove_list,     \* Worker.remove_list
    spc,             \* where the Worker thread is
    upc,             \* where each WorkerThread is
    idle,            \* WorkerThread.idle
    current_task,    \* WorkerThread.current_task
    redundant_flag,  \* WorkerThread.redundant_flag
    incoming,        \* the job queue's incoming items
    task_queue,      \* Worker.task_queue
    complete_queue,  \* Worker.complete_queue
    processed,       \* arguments of job_queue.mark_item_as_processed, in call order
    success,         \* task.success
    claims,          \* history: how often each task was taken from task_queue
    pushes,          \* history: how often each task was put on complete_queue
    raised,          \* history: tasks whose conversion raised
    status_pc,       \* where a caller of get_status is
    status_unit,     \* id of the WorkerThread whose get_status runs
    status_gone      \* what became of that thread object's registry entry

vars == <<target, changes, abort_flag, worker_threads, remove_list, spc, upc, idle,
          current_task, redundant_flag, incoming, task_queue, complete_queue,
          processed, success, claims, pushes, raised, status_pc, status_unit,
          status_gone>>

envVars == <<target, changes, abort_flag>>

supVars == <<worker_threads, remove_list, spc, incoming, processed>>

histVars == <<claims, pushes, raised>>

statusVars == <<status_pc, status_unit, status_gone>>

\* ---------------------------------------------------------------- helpers

\* Python truthiness of current_task: None and {} are falsy, a task is truthy
Truthy(ct) == ct > 0

\* threading.Thread.isAlive: started and run() not yet returned
isAlive(u) == upc[u] # "stopped"

\* queue.Queue.full
full(q) == Len(q) >= TaskQueueMaxSize

\* queue.Queue.empty
empty(q) == Len(q) = 0

Range(s) == {s[i] : i \in DOMAIN s}

Count(s, x) == Cardinality({i \in DOMAIN s : s[i] = x})

\* task.get_source_abspath(): directory components followed by the file name
get_source_abspath(t) == <<"library", "T" \o ToString(t)>>

\* task.get_source_basename(): last component of the source path
get_source_basename(t) == get_source_abspath(t)[Len(get_source_abspath(t))]

\* 70-83: the fields read from self.current_task.ffmpeg, the progress snapshot
\* of the task that current_task refers to; {} when current_task is falsy
getJobProgress(u) ==
    IF Truthy(current_task[u])
    THEN [ffmpeg |-> {current_task[u]}]
    ELSE [ffmpeg |-> {}]

get_status(u) ==
    [id           |-> ToString(u),
     idle         |-> idle[u],
     progress     |-> getJobProgress(u),
     current_file |-> IF Truthy(current_task[u])
                      THEN get_source_basename(current_task[u])
                      ELSE ""]

getAllWorkerStatus == [u \in worker_threads |-> get_status(u)]

\* ------------------------------------------------------------------ Init

\* Worker.__init__ (134-145); no WorkerThread exists yet
Init ==
    /\ target \in 1 .. MaxWorkers
    /\ changes = 0
    /\ abort_flag = FALSE
    /\ worker_threads = {}
    /\ remove_list = <<>>
    /\ spc = "L190"
    /\ upc = [u \in Units |-> "unborn"]
    /\ idle = [u \in Units |-> TRUE]
    /\ current_task = [u \in Units |-> NoTask]
    /\ redundant_flag = [u \in Units |-> FALSE]
    /\ incoming = [i \in 1 .. NumTasks |-> i]
    /\ task_queue = <<>>
    /\ complete_queue = <<>>
    /\ processed = <<>>
    /\ success = [t \in Tasks |-> "unset"]
    /\ claims = [t \in Tasks |-> 0]
    /\ pushes = [t \in Tasks |-> 0]
    /\ raised = {}
    /\ status_pc = "none"
    /\ status_unit = 0
    /\ status_gone = "no"

\* ------------------------------------------------------ WorkerThread.run

\* 107-108: while not self.redundant_flag.is_set(): self.idle = True
\* (also the exit of run at 130 when the flag is set)
OuterTest(u) ==
    /\ upc[u] = "L107"
    /\ IF redundant_flag[u]
       THEN /\ upc' = [upc EXCEPT ![u] = "stopped"]
            /\ idle' = idle
       ELSE /\ upc' = [upc EXCEPT ![u] = "L109"]
            /\ idle' = [idle EXCEPT ![u] = TRUE]
    /\ UNCHANGED <<statusVars, envVars, supVars, histVars, current_task, redundant_flag,
                   task_queue, complete_queue, success>>

\* An inner loop that is entered only by a unit whose idle flag is set
InnerTest_IdleOnly(u) ==
    /\ upc[u] = "L109"
    /\ upc' = [upc EXCEPT ![u] =
                 IF ~redundant_flag[u] /\ ~empty(task_queue) /\ idle[u]
                 THEN "L112" ELSE "L107"]
    /\ UNCHANGED <<statusVars, envVars, supVars, histVars, idle, current_task, redundant_flag,
                   task_queue, complete_queue, success>>

\* 109: while not self.redundant_flag.is_set() and not self.task_queue.empty()
\* when the test fails the unit sleeps (129) and returns to the outer test
InnerTest(u) ==
    /\ upc[u] = "L109"
    /\ upc' = [upc EXCEPT ![u] =
                 IF ~redundant_flag[u] /\ ~empty(task_queue) THEN "L112" ELSE "L107"]
    /\ UNCHANGED <<statusVars, envVars, supVars, histVars, idle, current_task, redundant_flag,
                   task_queue, complete_queue, success>>

\* Claim with a get that returns the head item and leaves it on the queue
Claim_Peek(u) ==
    /\ upc[u] = "L112"
    /\ idle' = [idle EXCEPT ![u] = FALSE]
    /\ IF empty(task_queue)
       THEN /\ upc' = [upc EXCEPT ![u] = "L109"]
            /\ UNCHANGED <<current_task, task_queue, claims>>
       ELSE /\ claims[Head(task_queue)] < 2
            /\ upc' = [upc EXCEPT ![u] = "L117"]
            /\ current_task' = [current_task EXCEPT ![u] = Head(task_queue)]
            /\ task_queue' = task_queue
            /\ claims' = [claims EXCEPT ![Head(task_queue)] = @ + 1]
    /\ UNCHANGED <<statusVars, envVars, supVars, pushes, raised, redundant_flag,
                   complete_queue, success>>

\* 111-112: self.idle = False; self.current_task = self.task_queue.get_nowait()
\* 125-126: queue.Empty -> continue (back to the inner test)
Claim(u) ==
    /\ upc[u] = "L112"
    /\ idle' = [idle EXCEPT ![u] = FALSE]
    /\ IF empty(task_queue)
       THEN /\ upc' = [upc EXCEPT ![u] = "L109"]
            /\ UNCHANGED <<current_task, task_queue, claims>>
       ELSE /\ upc' = [upc EXCEPT ![u] = "L117"]
            /\ current_task' = [current_task EXCEPT ![u] = Head(task_queue)]
            /\ task_queue' = Tail(task_queue)
            /\ claims' = [claims EXCEPT ![Head(task_queue)] = @ + 1]
    /\ UNCHANGED <<statusVars, envVars, supVars, pushes, raised, redundant_flag,
                   complete_queue, success>>

\* process_item whose return is cut short by a set retirement signal
ConvertReturn_Preempt(u, ok) ==
    /\ upc[u] = "L117"
    /\ success' = [success EXCEPT ![current_task[u]] = IF ok THEN "true" ELSE "false"]
    /\ upc' = [upc EXCEPT ![u] = IF redundant_flag[u] THEN "stopped" ELSE "L121"]
    /\ UNCHANGED <<statusVars, envVars, supVars, histVars, idle, current_task, redundant_flag,
                   task_queue, complete_queue>>

\* 117: self.current_task.success = self.process_item()   (85-103: True or False)
ConvertReturn(u, ok) ==
    /\ upc[u] = "L117"
    /\ success' = [success EXCEPT ![current_task[u]] = IF ok THEN "true" ELSE "false"]
    /\ upc' = [upc EXCEPT ![u] = "L121"]
    /\ UNCHANGED <<statusVars, envVars, supVars, histVars, idle, current_task, redundant_flag,
                   task_queue, complete_queue>>

\* An exception handler that still reports the task
ConvertRaise_Push(u) ==
    /\ upc[u] = "L117"
    /\ raised' = raised \cup {current_task[u]}
    /\ complete_queue' = Append(complete_queue, current_task[u])
    /\ pushes' = [pushes EXCEPT ![current_task[u]] = @ + 1]
    /\ upc' = [upc EXCEPT ![u] = "L109"]
    /\ UNCHANGED <<statusVars, envVars, supVars, claims, idle, current_task,
                   redundant_flag, task_queue, success>>

\* An exception handler that puts the task back on the Handoff Queue
ConvertRaise_Requeue(u) ==
    /\ upc[u] = "L117"
    /\ raised' = raised \cup {current_task[u]}
    /\ task_queue' = IF full(task_queue) \/ claims[current_task[u]] > 1
                     THEN task_queue
                     ELSE Append(task_queue, current_task[u])
    /\ upc' = [upc EXCEPT ![u] = "L109"]
    /\ UNCHANGED <<statusVars, envVars, supVars, claims, pushes, idle, current_task,
                   redundant_flag, complete_queue, success>>

\* 113-117 raise, 127-128: except Exception: log; the inner loop continues
ConvertRaise(u) ==
    /\ upc[u] = "L117"
    /\ raised' = raised \cup {current_task[u]}
    /\ upc' = [upc EXCEPT ![u] = "L109"]
    /\ UNCHANGED <<statusVars, envVars, supVars, claims, pushes, idle, current_task,
                   redundant_flag, task_queue, complete_queue, success>>

\* 121-124: self.complete_queue.put(self.current_task); self.current_task = {}
Push(u) ==
    /\ upc[u] = "L121"
    /\ complete_queue' = Append(complete_queue, current_task[u])
    /\ pushes' = [pushes EXCEPT ![current_task[u]] = @ + 1]
    /\ current_task' = [current_task EXCEPT ![u] = NoTask]
    /\ upc' = [upc EXCEPT ![u] = "L109"]
    /\ UNCHANGED <<statusVars, envVars, supVars, claims, raised, idle, redundant_flag,
                   task_queue, success>>

\* 105-130: one step of unit u
WorkerThreadRun(u) ==
    \/ OuterTest(u)
    \/ InnerTest(u)
    \/ Claim(u)
    \/ \E ok \in BOOLEAN : ConvertReturn(u, ok)
    \/ ConvertRaise(u)
    \/ Push(u)

\* ------------------------------------------------------------ the Worker

\* 171: self.remove_list.append(thread); entries past MaxRemoveList are not tracked
AppendRemoveList(rl, thread) ==
    IF Len(rl) < MaxRemoveList THEN Append(rl, thread) ELSE rl

\* 153-155: for thread in range(len(self.worker_threads)):
\*              if not self.worker_threads[thread].isAlive(): del ...
\* n is the length taken when the loop starts; a missing key raises KeyError (err)
RECURSIVE ReapLoop(_, _, _)
ReapLoop(thread, n, W) ==
    IF thread >= n THEN [reg |-> W, err |-> FALSE]
    ELSE IF thread \notin W THEN [reg |-> W, err |-> TRUE]
    ELSE ReapLoop(thread + 1, n, IF isAlive(thread) THEN W ELSE W \ {thread})

\* A spawn loop that starts a unit for every id below the target
SpawnSet_All(W, N) ==
    IF Cardinality(W) < N THEN 0 .. (N - 1) ELSE {}

\* 156-162: ids in range(NUMBER_OF_WORKERS) that are not in the registry get a unit
SpawnSet(W, N) ==
    IF Cardinality(W) < N THEN (0 .. (N - 1)) \ W ELSE {}

\* A retirement loop that also signals the unit just below the target
RECURSIVE RetireLoop_Below(_, _, _, _, _, _)
RetireLoop_Below(thread, n, W, N, flagged, rl) ==
    IF thread >= n THEN [flagged |-> flagged, rl |-> rl, err |-> FALSE]
    ELSE IF thread \notin W THEN [flagged |-> flagged, rl |-> rl, err |-> TRUE]
    ELSE IF thread >= N - 1
         THEN RetireLoop_Below(thread + 1, n, W, N, flagged \cup {thread},
                               AppendRemoveList(rl, thread))
         ELSE RetireLoop_Below(thread + 1, n, W, N, flagged, rl)

\* 167-171: for thread in range(len(self.worker_threads)):
\*              if self.worker_threads[thread].threadID >= NUMBER_OF_WORKERS:
\*                  redundant_flag.set(); remove_list.append(thread)
RECURSIVE RetireLoop(_, _, _, _, _, _)
RetireLoop(thread, n, W, N, flagged, rl) ==
    IF thread >= n THEN [flagged |-> flagged, rl |-> rl, err |-> FALSE]
    ELSE IF thread \notin W THEN [flagged |-> flagged, rl |-> rl, err |-> TRUE]
    ELSE IF thread >= N
         THEN RetireLoop(thread + 1, n, W, N, flagged \cup {thread},
                         AppendRemoveList(rl, thread))
         ELSE RetireLoop(thread + 1, n, W, N, flagged, rl)

\* 151-172: the effect of one call on the registry, the units' signals and
\* remove_list when int(self.settings.NUMBER_OF_WORKERS) is N; err says that
\* the call ended with a KeyError
initWorkerThreads(N) ==
    LET r1    == ReapLoop(0, Cardinality(worker_threads), worker_threads)
        spawn == IF r1.err THEN {} ELSE SpawnSet(r1.reg, N)
        W2    == r1.reg \cup spawn
        r3    == IF r1.err \/ ~(Cardinality(W2) > N)
                 THEN [flagged |-> {}, rl |-> remove_list, err |-> FALSE]
                 ELSE RetireLoop(0, Cardinality(W2), W2, N, {}, remove_list)
    IN  [reg     |-> W2,
         reaped  |-> worker_threads \ r1.reg,
         spawned |-> spawn,
         flagged |-> r3.flagged,
         rl      |-> r3.rl,
         err     |-> r1.err \/ r3.err]

\* 174-177: WorkerThread(...) (40-52: idle, no task, signal clear); thread.start()
startWorkerThread(r, u, field, old) ==
    IF u \in r.spawned
    THEN CASE field = "upc"  -> "L107"
           [] field = "idle" -> TRUE
           [] field = "task" -> NoTask
           [] OTHER          -> FALSE
    ELSE IF u \in r.reaped
    THEN CASE field = "upc"  -> "unborn"
           [] field = "idle" -> TRUE
           [] field = "task" -> NoTask
           [] OTHER          -> FALSE
    ELSE IF field = "flag" /\ u \in r.flagged THEN TRUE
    ELSE old

\* A call of initWorkerThreads by the Worker thread, which continues at next_pc;
\* an uncaught KeyError ends Worker.run.  The setting is only read here, so a
\* change of the setting is the call reading a value N other than the last one.
\* A deleted entry's thread object is unreachable for the Worker: its fields are
\* reset to those of a unit that does not exist.  A get_status call that runs
\* on that object still holds it; the object's thread has ended, so status_gone
\* keeps whether its current_task is a task for the rest of that call.
CallInit(N, next_pc) ==
    LET r == initWorkerThreads(N) IN
    /\ N = target \/ changes < MaxChanges
    /\ target' = N
    /\ changes' = IF N = target THEN changes ELSE changes + 1
    /\ worker_threads' = r.reg
    /\ remove_list' = r.rl
    /\ upc' = [u \in Units |-> startWorkerThread(r, u, "upc", upc[u])]
    /\ idle' = [u \in Units |-> startWorkerThread(r, u, "idle", idle[u])]
    /\ current_task' = [u \in Units |-> startWorkerThread(r, u, "task", current_task[u])]
    /\ redundant_flag' = [u \in Units |-> startWorkerThread(r, u, "flag", redundant_flag[u])]
    /\ spc' = IF r.err THEN "crashed" ELSE next_pc
    /\ status_gone' = IF status_pc \in {"L73", "L66", "L67"} /\ status_unit \in r.reaped
                      THEN IF Truthy(current_task[status_unit])
                           THEN "task" ELSE "notask"
                      ELSE status_gone
    /\ UNCHANGED <<status_pc, status_unit>>

\* 179-183
checkForIdleWorkers == \E thread \in worker_threads : idle[thread]

\* A monitor loop that signals every registered unit to retire when it ends
Tick_AbortRetires ==
    /\ spc = "L190"
    /\ IF abort_flag
       THEN /\ spc' = "done"
            /\ redundant_flag' = [u \in Units |->
                                    redundant_flag[u] \/ u \in worker_threads]
            /\ UNCHANGED <<target, changes, worker_threads, remove_list, upc, idle,
                           current_task, statusVars>>
       ELSE \E N \in 1 .. MaxWorkers : CallInit(N, "L197")
    /\ UNCHANGED <<abort_flag, histVars, incoming, processed, task_queue,
                   complete_queue, success>>

\* 190-194: while not self.abort_flag.is_set(): sleep; self.initWorkerThreads()
Tick ==
    /\ spc = "L190"
    /\ IF abort_flag
       THEN /\ spc' = "done"
            /\ UNCHANGED <<target, changes, worker_threads, remove_list, upc, idle,
                           current_task, redundant_flag, statusVars>>
       ELSE \E N \in 1 .. MaxWorkers : CallInit(N, "L197")
    /\ UNCHANGED <<abort_flag, histVars, incoming, processed, task_queue,
                   complete_queue, success>>

\* 197-200: if not self.checkForIdleWorkers(): sleep; continue
CheckIdle ==
    /\ spc = "L197"
    /\ spc' = IF checkForIdleWorkers THEN "L202" ELSE "L190"
    /\ UNCHANGED <<statusVars, envVars, histVars, worker_threads, remove_list, incoming,
                   processed, upc, idle, current_task, redundant_flag, task_queue,
                   complete_queue, success>>

\* A drain that takes the task that was pushed last
Drain_Newest ==
    /\ spc = "L202"
    /\ IF ~abort_flag /\ ~empty(complete_queue)
       THEN /\ processed' = Append(processed, complete_queue[Len(complete_queue)])
            /\ complete_queue' = SubSeq(complete_queue, 1, Len(complete_queue) - 1)
            /\ spc' = "L202"
       ELSE /\ spc' = "L213"
            /\ UNCHANGED <<processed, complete_queue>>
    /\ UNCHANGED <<statusVars, envVars, histVars, worker_threads, remove_list, incoming,
                   upc, idle, current_task, redundant_flag, task_queue,
                   success>>

\* 202-211: while not abort and not complete_queue.empty():
\*              task_item = get_nowait(); job_queue.mark_item_as_processed(task_item)
Drain ==
    /\ spc = "L202"
    /\ IF ~abort_flag /\ ~empty(complete_queue)
       THEN /\ processed' = Append(processed, Head(complete_queue))
            /\ complete_queue' = Tail(complete_queue)
            /\ spc' = "L202"
       ELSE /\ spc' = "L213"
            /\ UNCHANGED <<processed, complete_queue>>
    /\ UNCHANGED <<statusVars, envVars, histVars, worker_threads, remove_list, incoming,
                   upc, idle, current_task, redundant_flag, task_queue,
                   success>>

\* 213-216: while not abort and not job_queue.incoming_is_empty():
\*              sleep; self.initWorkerThreads()
DispatchTest ==
    /\ spc = "L213"
    /\ IF ~abort_flag /\ ~empty(incoming)
       THEN \E N \in 1 .. MaxWorkers : CallInit(N, "L218")
       ELSE /\ spc' = "L190"
            /\ UNCHANGED <<target, changes, worker_threads, remove_list, upc, idle,
                           current_task, redundant_flag, statusVars>>
    /\ UNCHANGED <<abort_flag, histVars, incoming, processed, task_queue,
                   complete_queue, success>>

\* 185-186: self.task_queue.put(item) blocks while the queue is at maxsize
add_to_task_queue(item) ==
    /\ Len(task_queue) < TaskQueueMaxSize
    /\ task_queue' = Append(task_queue, item)

\* 218-219: if self.task_queue.full(): break
DispatchFull ==
    /\ spc = "L218"
    /\ spc' = IF full(task_queue) THEN "L190" ELSE "L220"
    /\ UNCHANGED <<statusVars, envVars, histVars, worker_threads, remove_list, incoming,
                   processed, upc, idle, current_task, redundant_flag, task_queue,
                   complete_queue, success>>

\* 220-223: next_item_to_process = get_next_incoming_item(); if it: put
Dispatch ==
    /\ spc = "L220"
    /\ spc' = "L213"
    /\ IF empty(incoming)
       THEN UNCHANGED <<incoming, task_queue>>
       ELSE /\ incoming' = Tail(incoming)
            /\ add_to_task_queue(Head(incoming))
    /\ UNCHANGED <<statusVars, envVars, histVars, worker_threads, remove_list, processed,
                   upc, idle, current_task, redundant_flag, complete_queue,
                   success>>

\* 188-227: one step of the Worker thread
WorkerRun ==
    \/ Tick
    \/ CheckIdle
    \/ Drain
    \/ DispatchTest
    \/ DispatchFull
    \/ Dispatch

\* ------------------------------------------------------- the environment

\* abort_flag.set() by the owner of the Worker.  The flag is only read by the
\* tests of 190, 202 and 213: a set is taken at the test that observes it first.
Abort ==
    /\ ~abort_flag
    /\ spc \in {"L190", "L202", "L213"}
    /\ abort_flag' = TRUE
    /\ UNCHANGED <<statusVars, target, changes, supVars, histVars, upc, idle, current_task,
                   redundant_flag, task_queue, complete_queue, success>>

\* ------------------------------------------------ a caller of get_status

\* What the caller reads as bool(self.current_task) of the thread object it
\* holds: the unit's field, or the value the object kept when its registry
\* entry was deleted
StatusSeesTask ==
    IF status_gone = "no" THEN Truthy(current_task[status_unit])
    ELSE status_gone = "task"

\* 229-233 call get_status on a registered unit; 62: reads idle;
\* 64, 72: getJobProgress tests  if self.current_task:
StatusBegin(u) ==
    /\ status_pc = "none"
    /\ u \in worker_threads
    /\ status_unit' = u
    /\ status_gone' = "no"
    /\ status_pc' = IF Truthy(current_task[u]) THEN "L73" ELSE "L66"
    /\ UNCHANGED <<envVars, supVars, histVars, upc, idle, current_task,
                   redundant_flag, task_queue, complete_queue, success>>

\* 73-82: str(self.current_task.ffmpeg.<field>): each line reads current_task
\* again; {} has no attribute ffmpeg and the read raises AttributeError
StatusFields ==
    /\ status_pc = "L73"
    /\ IF StatusSeesTask
       THEN /\ status_pc' = "L66"
            /\ UNCHANGED <<status_unit, status_gone>>
       ELSE /\ status_pc' = "raised"
            /\ status_unit' = 0
            /\ status_gone' = "no"
    /\ UNCHANGED <<envVars, supVars, histVars, upc, idle, current_task,
                   redundant_flag, task_queue, complete_queue, success>>

\* 66: if self.current_task:  (else the status record is returned, 68)
StatusTest ==
    /\ status_pc = "L66"
    /\ IF StatusSeesTask
       THEN /\ status_pc' = "L67"
            /\ UNCHANGED <<status_unit, status_gone>>
       ELSE /\ status_pc' = "none"
            /\ status_unit' = 0
            /\ status_gone' = "no"
    /\ UNCHANGED <<envVars, supVars, histVars, upc, idle, current_task,
                   redundant_flag, task_queue, complete_queue, success>>

\* 67: self.current_task.get_source_basename() reads current_task again; {}
\* has no such attribute and the call raises AttributeError; 68: return status
StatusBasename ==
    /\ status_pc = "L67"
    /\ IF StatusSeesTask
       THEN /\ status_pc' = "none"
            /\ status_unit' = 0
            /\ status_gone' = "no"
       ELSE /\ status_pc' = "raised"
            /\ status_unit' = 0
            /\ status_gone' = "no"
    /\ UNCHANGED <<envVars, supVars, histVars, upc, idle, current_task,
                   redundant_flag, task_queue, complete_queue, success>>

\* 58-83, 229-233: one step of a thread that calls getAllWorkerStatus; an
\* exception ends that thread's call (status_pc stays "raised")
StatusRead ==
    \/ \E u \in Units : StatusBegin(u)
    \/ StatusFields
    \/ StatusTest
    \/ StatusBasename

\* ------------------------------------------------------- specifications

Next ==
    \/ WorkerRun
    \/ \E u \in Units : WorkerThreadRun(u)
    \/ Abort

Spec == Init /\ [][Next]_vars

\* No abort is requested; threads that can run are scheduled
LiveNext ==
    \/ WorkerRun
    \/ \E u \in Units : WorkerThreadRun(u)

FairSpec ==
    /\ Init
    /\ [][LiveNext]_vars
    /\ WF_vars(WorkerRun)
    /\ \A u \in Units : WF_vars(WorkerThreadRun(u))

\* Worker.__init__ with StatusTasks incoming items; no get_status call runs
StatusInit ==
    /\ target \in 1 .. MaxWorkers
    /\ changes = 0
    /\ abort_flag = FALSE
    /\ worker_threads = {}
    /\ remove_list = <<>>
    /\ spc = "L190"
    /\ upc = [u \in Units |-> "unborn"]
    /\ idle = [u \in Units |-> TRUE]
    /\ current_task = [u \in Units |-> NoTask]
    /\ redundant_flag = [u \in Units |-> FALSE]
    /\ incoming = [i \in 1 .. StatusTasks |-> i]
    /\ task_queue = <<>>
    /\ complete_queue = <<>>
    /\ processed = <<>>
    /\ success = [t \in Tasks |-> "unset"]
    /\ claims = [t \in Tasks |-> 0]
    /\ pushes = [t \in Tasks |-> 0]
    /\ raised = {}
    /\ status_pc = "none"
    /\ status_unit = 0
    /\ status_gone = "no"

\* The program with a thread that reads the units' status
StatusNext ==
    \/ WorkerRun
    \/ \E u \in Units : WorkerThreadRun(u)
    \/ Abort
    \/ StatusRead

StatusSpec == StatusInit /\ [][StatusNext]_vars

\* ------------------------------------------------------------- properties

\* Task t was taken from the Handoff Queue and its processing has neither
\* ended in a completion push nor in an exception
InFlight(t) == claims[t] > 0 /\ pushes[t] = 0 /\ t \notin raised

\* The tasks unit u owns: from its claim to the completion push
OwnedBy(u) == {t \in Tasks : current_task[u] = t /\ InFlight(t)}

\* C1: in every reachable state the Handoff Queue (task_queue) holds 0 or 1
\* tasks, never more.
C1_HandoffAtMostOne == Len(task_queue) <= 1

\* The Worker is back at the full() test of the dispatch loop while the task it
\* put is still on the queue and a unit is about to take it.
C1_Witness ==
    /\ spc = "L218"
    /\ Len(task_queue) = 1
    /\ \E u \in Units : upc[u] = "L112"

\* C2: no task is duplicated: a task is taken from the Handoff Queue by at most
\* one unit, pushed to the Completion Channel at most once and passed to
\* mark_item_as_processed at most once; a task whose conversion returned is
\* pushed exactly once (it is at the push, or it has been pushed once and is on
\* the Completion Channel or reported).
C2_NoDuplication ==
    \A t \in Tasks :
        /\ claims[t] <= 1
        /\ pushes[t] <= 1
        /\ Count(processed, t) <= 1
        /\ Count(complete_queue, t) + Count(processed, t) = pushes[t]
        /\ Cardinality({u \in Units : t \in OwnedBy(u)}) <= 1
        /\ success[t] # "unset" =>
              \/ pushes[t] = 1
              \/ \E u \in Units : upc[u] = "L121" /\ current_task[u] = t

\* Two units saw task 1 on the Handoff Queue; one took it and runs it, the
\* other is about to call get_nowait on the now empty queue.
C2_Witness ==
    \E u, v \in Units :
        /\ u # v
        /\ upc[u] = "L117" /\ current_task[u] = 1
        /\ upc[v] = "L112"
        /\ task_queue = <<>>
        /\ claims[2] = 0

\* Worker.run has returned (227) or was ended by an uncaught exception: the
\* registry and the job queue's records do not change any more
WorkerEnded == spc \in {"done", "crashed"}

\* C3: for any sequence of changes of the target that ends with the target at
\* N, the pool reaches and stays in a state where the registry holds exactly
\* the live units 0 .. N-1.  As a final result: when no abort was requested
\* and the registry can no longer change, it holds exactly the live units
\* 0 .. N-1.
C3_PoolConverges ==
    (WorkerEnded /\ ~abort_flag) =>
        /\ worker_threads = 0 .. (target - 1)
        /\ \A u \in worker_threads : isAlive(u) /\ ~redundant_flag[u]

\* C4: retirement never preempts in-flight work: a task that was claimed and
\* whose conversion did not raise stays with a running unit (converting, or
\* at the push with its outcome recorded) until it is pushed; the unit does not
\* stop in between, whether or not its retirement signal is set.
C4_NoPreemption ==
    \A t \in Tasks :
        InFlight(t) =>
            \E u \in Units :
                /\ current_task[u] = t
                /\ \/ upc[u] = "L117" /\ success[t] = "unset"
                   \/ upc[u] = "L121" /\ success[t] # "unset"

\* A unit whose retirement signal is set has finished its conversion, recorded
\* the outcome and is at the push.
C4_Witness ==
    \E u \in Units :
        /\ redundant_flag[u]
        /\ upc[u] = "L121"
        /\ success[current_task[u]] # "unset"

\* C5: once a unit's retirement signal is set, the unit never takes a task
\* from the Handoff Queue.
C5_NoClaimAfterSignal ==
    [][\A u \in Units :
          (redundant_flag[u] /\ upc[u] = "L112") => upc'[u] # "L117"]_vars

\* C6: when the conversion raises on task T, T's success flag is never set to
\* true, T is never on the Completion Channel and never reported; the unit is
\* not stopped by the exception (a unit stops only on its retirement signal).
C6_RaisedTaskLost ==
    /\ \A t \in raised :
          /\ success[t] # "true"
          /\ pushes[t] = 0
          /\ Count(complete_queue, t) = 0
          /\ Count(processed, t) = 0
    /\ \A u \in Units : upc[u] = "stopped" => redundant_flag[u]

\* With a single unit and no change of the target: task 1 raised in unit 0,
\* the Worker dispatched task 2 and unit 0 claimed it and converts it.
C6_Witness ==
    /\ target = 1 /\ changes = 0
    /\ 1 \in raised
    /\ upc[0] = "L117" /\ current_task[0] = 2

\* C7: get_status of a registered unit reports the progress snapshot and the
\* source basename of the task the unit owns, and empty progress and an empty
\* current file when it owns none (after a push, after a conversion that
\* raised).
C7_StatusReflectsOwned ==
    \A u \in worker_threads :
        IF OwnedBy(u) = {}
        THEN /\ get_status(u).current_file = ""
             /\ get_status(u).progress.ffmpeg = {}
        ELSE \E t \in OwnedBy(u) :
                /\ get_status(u).current_file = get_source_basename(t)
                /\ get_status(u).progress.ffmpeg = {t}

\* C8: a unit is removed from the registry only after it has stopped, and at
\* the moment of removal its current-task reference is absent.
C8_RemovedWithoutTask ==
    [][\A u \in worker_threads :
          u \notin worker_threads' =>
              upc[u] = "stopped" /\ ~Truthy(current_task[u])]_vars

\* C9: with no abort, every task whose conversion returned is eventually
\* passed to mark_item_as_processed.  As a final result: when no abort was
\* requested and the Worker can report nothing any more, every task whose
\* conversion returned has been reported.
C9_ReturnedEventuallyMarked ==
    (WorkerEnded /\ ~abort_flag) =>
        \A t \in Tasks : success[t] # "unset" => Count(processed, t) > 0

\* C10: the Worker takes an incoming item and puts it on the Handoff Queue only
\* in a state where at least one registered unit reports idle.
C10_DispatchOnlyWhenIdle ==
    [][(spc = "L220" /\ incoming' # incoming) => checkForIdleWorkers]_vars

\* C11: a unit is marked idle as soon as it holds no task: during the backoff
\* wait that follows a completion push or an empty claim attempt (the unit is
\* back at the outer loop test) and when it has observed its retirement signal
\* and stopped, its idle flag is true.
C11_IdleWhenNoTask ==
    \A u \in worker_threads :
        (~Truthy(current_task[u]) /\ upc[u] \in {"L107", "stopped"}) => idle[u]

\* Steps the Worker still takes from each position once abort_flag is set:
\* every test of 190, 202 and 213 fails, so each step brings it closer to the
\* return of run
AbortDistance(pc) ==
    CASE pc = "done"  -> 0
      [] pc = "L190"  -> 1
      [] pc = "L213"  -> 2
      [] pc = "L202"  -> 3
      [] pc = "L197"  -> 4
      [] pc = "L218"  -> 5
      [] pc = "L220"  -> 4
      [] OTHER        -> 0

C13_RetireOnlyAtOrAboveTarget ==
    [][(spc \in {"L190", "L213"} /\ spc' \in {"L197", "L218", "crashed"}) =>
          /\ \A u \in initWorkerThreads(target').flagged : u >= target'
          /\ \A u \in Units :
                (redundant_flag'[u] /\ ~redundant_flag[u]) => u >= target'
          /\ \A u \in worker_threads \ worker_threads' :
                redundant_flag[u] /\ ~isAlive(u)]_vars

\* The target went from 3 to 1: units 1 and 2 are signaled, unit 2 has stopped
\* and is removed, unit 0 is registered, running and not signaled.
C13_Witness ==
    /\ changes = 1 /\ target = 1
    /\ worker_threads = {0, 1}
    /\ redundant_flag[1] /\ ~redundant_flag[0]
    /\ isAlive(0) /\ upc[2] = "unborn"
    /\ remove_list = <<1, 2>>

\* C14: retirement signaling is idempotent: a unit that was already signaled
\* is skipped by later calls of initWorkerThreads, so its id is recorded in
\* remove_list at most once.
C14_ReapListNoDuplicates ==
    \A u \in Units : Count(remove_list, u) <= 1

\* C15: a status read that runs concurrently with a unit finishing its task,
\* or with the Worker changing the registry, always returns a status record:
\* in no interleaving of its steps with the unit's does it raise.
C15_StatusNeverRaises == status_pc # "raised"

\* s is an initial part of t
IsPrefix(s, t) == Len(s) <= Len(t) /\ SubSeq(t, 1, Len(s)) = s

\* C16: completion order need not be submission order, while the Completion
\* Channel itself keeps the order of the pushes: the tasks reported so far
\* followed by the tasks waiting on the Completion Channel are the pushes in
\* the order they were made, so every step only extends that sequence at its
\* end and a task is reported only after every task pushed before it.
C16_CompletionOrderIsPushOrder ==
    [][IsPrefix(processed \o complete_queue, processed' \o complete_queue')]_vars

\* With a target of 2 and tasks 1, 2 dispatched in that order, task 2 was
\* pushed and reported before task 1.
C16_Witness ==
    /\ target = 2 /\ changes = 0
    /\ claims[1] = 1 /\ claims[2] = 1
    /\ processed = <<2, 1>>

\* C17: initWorkerThreads never fails with an unhandled error: every registry
\* lookup it performs is on an id present in the registry, so Worker.run is
\* never ended by an exception and the Worker leaves its loop only when abort
\* is requested.
C17_InitNeverFails ==
    /\ spc # "crashed"
    /\ spc = "done" => abort_flag

ClaimDistance(pc) ==
    CASE pc = "L112" -> 1
      [] pc = "L109" -> 2
      [] pc = "L107" -> 3
      [] pc = "L121" -> 3
      [] pc = "L117" -> 4
      [] OTHER       -> 5

\* C19: with a target of 1 or more, no task stays on the Handoff Queue for
\* ever.  While a task is on the queue, unit 0 is registered, running and not
\* signaled, also after the pool was shrunk; every step unit 0 takes brings it
\* closer to its claim unless the queue was emptied, and the queue is emptied
\* only by a unit that takes the task as its current task.  A unit 0 that
\* keeps being scheduled therefore claims the task after at most 4 of its
\* steps if no other unit did.
C19_QueuedTaskIsClaimed ==
    /\ [](task_queue # <<>> =>
             /\ 0 \in worker_threads /\ ~redundant_flag[0]
             /\ upc[0] \in {"L107", "L109", "L112", "L117", "L121"})
    /\ [][(task_queue # <<>> /\ upc'[0] # upc[0]) =>
             \/ ClaimDistance(upc'[0]) < ClaimDistance(upc[0])
             \/ upc'[0] = "L117" /\ current_task'[0] = Head(task_queue)]_vars
    /\ [][(task_queue # <<>> /\ task_queue' # task_queue) =>
             \E u \in worker_threads :
                 /\ upc[u] = "L112" /\ upc'[u] = "L117"
                 /\ current_task'[u] = Head(task_queue)]_vars

\* The pool was shrunk to 1 and the retired units are gone; task 1 has left
\* unit 0 and task 2, put on the queue after it, has been claimed by unit 0.
C19_Witness ==
    /\ changes = 1 /\ target = 1
    /\ worker_threads = {0} /\ remove_list # <<>>
    /\ 1 \in raised \/ pushes[1] = 1
    /\ upc[0] = "L117" /\ current_task[0] = 2

\* C20: the Worker is the only producer on the Handoff Queue and tests full()
\* right before each put: only the Worker's step of 220-223 makes task_queue
\* longer, and whenever the Worker stands before the put the queue is empty,
\* so the put does not block.
C20_PutNeverBlocks ==
    /\ [](spc = "L220" => task_queue = <<>>)
    /\ [][Len(task_queue') > Len(task_queue) =>
             /\ spc = "L220" /\ spc' = "L213"
             /\ task_queue = <<>>]_vars

\* The Worker has passed the full() test and stands before the put of task 2
\* while a unit converts task 1 and another unit is at its outer loop test.
C20_Witness ==
    /\ spc = "L220" /\ incoming = <<2>>
    /\ \E u, v \in worker_threads :
          /\ upc[u] = "L117" /\ current_task[u] = 1
          /\ upc[v] = "L107"

====
